---- MODULE Spec2Model ----
(***************************************************************************)
(* Model of the weather service: the HTTP handlers of src/api.py           *)
(* (weather_latest, weather_stats, weather_fetch, health), the per-request *)
(* connection scope get_conn, and the script adapter fetch_weather of      *)
(* src/weather.py.  The storage module `db` and the upstream client        *)
(* `open_meteo` that api.py imports are not part of the sources; their     *)
(* operations are modelled from the written contract of the repository.    *)
(***************************************************************************)
EXTENDS Integers, Sequences, FiniteSets, TLC

(***************************************************************************)
(* Bounds of the model.                                                    *)
(***************************************************************************)
MaxTs == 2
MaxRows == 3
NumConc == 2
MaxSeries == 2

(***************************************************************************)
(* Program constants.                                                      *)
(***************************************************************************)
NMin == 1
NMax == 1000
NDefault == 24

(***************************************************************************)
(* Values.  Python's None, floats and strings are kept apart by a tag so   *)
(* that a field can hold either.                                           *)
(***************************************************************************)
None == [tag |-> "None"]
Num(x) == [tag |-> "float", v |-> x]
Str(s) == [tag |-> "str", s |-> s]

Max2(a, b) == IF a >= b THEN a ELSE b
Min2(a, b) == IF a <= b THEN a ELSE b

(***************************************************************************)
(* Strings are sequences of one-character strings; str.strip() removes     *)
(* leading and trailing whitespace.                                        *)
(***************************************************************************)
RECURSIVE lstrip(_)
lstrip(s) == IF s # <<>> /\ Head(s) = " " THEN lstrip(Tail(s)) ELSE s

RECURSIVE rstrip(_)
rstrip(s) ==
  IF s # <<>> /\ s[Len(s)] = " " THEN rstrip(SubSeq(s, 1, Len(s) - 1)) ELSE s

strip(s) == rstrip(lstrip(s))

(***************************************************************************)
(* Inputs of the requests.                                                 *)
(***************************************************************************)
CityA == <<"a">>
CityB == <<"b">>
CityInputs == { <<>>, <<" ">>, CityA, <<" ", "a", " ">>, CityB }
NoParam == <<>>
NInputs == { NoParam, <<NMin - 1>>, <<NMin>>, <<NMin + 1>>, <<NMax>>, <<NMax + 1>> }
Timestamps == 1..MaxTs
Samples ==
  { [temperature |-> None, humidity |-> None],
    [temperature |-> Num(10), humidity |-> Num(80)],
    [temperature |-> Num(20), humidity |-> None] }

Slots == 1..NumConc
SeqSlots == {1}

VARIABLES
  rows,      \* the table `weather`: a set of rows [city, ts, temperature, humidity]
  open,      \* the requests holding an open sqlite connection
  pc,        \* per request: position in its handler
  kind,      \* per request: the endpoint
  city,      \* per request: the city parameter as received
  n,         \* per request: the n parameter as received, <<k>>, or NoParam
  reading,   \* per request: what fetch_current returned (weather_fetch)
  result,    \* per request: what the storage operation returned
  exc,       \* per request: the exception in flight, "none" when there is none
  status,    \* per request: the HTTP status of the response, 0 before it
  body,      \* per request: the JSON body of a 200 response
  calls,     \* per request: how many times connect, close, fetch_current and
             \* the storage operation were called, and how many times the
             \* table was changed
  faults,    \* per request: the failures the environment produced
  provider,  \* weather.py: the provider's answer given to fetch_weather
  weather_data \* weather.py: what fetch_weather returned

vars ==
  << rows, open, pc, kind, city, n, reading, result, exc, status, body, calls,
     faults, provider, weather_data >>

reqvars == << pc, kind, city, n, reading, result, exc, status, body, calls, faults >>
scriptvars == << provider, weather_data >>

NoValue == [tag |-> "unset"]
NoCalls == [connect |-> 0, close |-> 0, fetch |-> 0, db |-> 0, wrote |-> 0]

(***************************************************************************)
(* Storage operations of the module `db` (not among the sources): one      *)
(* table keyed by (city, ts).                                              *)
(***************************************************************************)
RowsFor(db, c) == { r \in db : r.city = c }

HasKey(db, c, t) == \E r \in db : r.city = c /\ r.ts = t

\* the insert without the uniqueness constraint
insert_reading_no_unique(db, rd) == [rows |-> db \cup {rd}, inserted |-> TRUE]

\* the insert replacing the stored row of the same key
insert_reading_replace(db, rd) ==
  [rows |-> { r \in db : ~(r.city = rd.city /\ r.ts = rd.ts) } \cup {rd},
   inserted |-> ~HasKey(db, rd.city, rd.ts)]

insert_reading(db, rd) ==
  IF HasKey(db, rd.city, rd.ts)
  THEN [rows |-> db, inserted |-> FALSE]
  ELSE [rows |-> db \cup {rd}, inserted |-> TRUE]

\* ORDER BY ts DESC
RECURSIVE OrderByTsDesc(_)
OrderByTsDesc(S) ==
  IF S = {} THEN <<>>
  ELSE LET m == CHOOSE r \in S : \A q \in S : q.ts <= r.ts
       IN <<m>> \o OrderByTsDesc(S \ {m})

Limit(seq, k) == SubSeq(seq, 1, Min2(k, Len(seq)))

latest_for_city(db, c) ==
  LET top == Limit(OrderByTsDesc(RowsFor(db, c)), 1)
  IN IF top = <<>> THEN None ELSE top[1]

RECURSIVE Gcd(_, _)
Gcd(a, b) == IF b = 0 THEN a ELSE Gcd(b, a % b)

\* a float that is the quotient of two integers, in lowest terms
Ratio(a, b) == Num([num |-> a \div Gcd(a, b), den |-> b \div Gcd(a, b)])

RECURSIVE NonNullTemps(_)
NonNullTemps(seq) ==
  IF seq = <<>> THEN <<>>
  ELSE IF Head(seq).temperature = None THEN NonNullTemps(Tail(seq))
       ELSE <<Head(seq).temperature.v>> \o NonNullTemps(Tail(seq))

RECURSIVE SumSeq(_)
SumSeq(seq) == IF seq = <<>> THEN 0 ELSE Head(seq) + SumSeq(Tail(seq))

RECURSIVE MinSeq(_)
MinSeq(seq) ==
  IF Len(seq) = 1 THEN seq[1] ELSE Min2(Head(seq), MinSeq(Tail(seq)))

RECURSIVE MaxSeq(_)
MaxSeq(seq) ==
  IF Len(seq) = 1 THEN seq[1] ELSE Max2(Head(seq), MaxSeq(Tail(seq)))

stats_last_n(db, c, k) ==
  LET lastn == Limit(OrderByTsDesc(RowsFor(db, c)), k)
      temps == NonNullTemps(lastn)
  IN IF temps = <<>>
     THEN [avg |-> None, min |-> None, max |-> None, count |-> Len(lastn)]
     ELSE [avg |-> Ratio(SumSeq(temps), Len(temps)),
           min |-> Num(MinSeq(temps)),
           max |-> Num(MaxSeq(temps)),
           count |-> Len(lastn)]

(***************************************************************************)
(* The upstream client `open_meteo` (not among the sources): one reading   *)
(* for the location it is given.                                           *)
(***************************************************************************)
fetch_current(c, t, s) ==
  [city |-> c, ts |-> t, temperature |-> s.temperature, humidity |-> s.humidity]

(***************************************************************************)
(* api.py: validation of the parameters (the Query/body constraints and    *)
(* the handlers' own checks).                                              *)
(***************************************************************************)
EffectiveN(p) == IF p = NoParam THEN NDefault ELSE p[1]

weather_latest_valid(c) == Len(c) >= 1 /\ strip(c) # <<>>

weather_stats_valid(c, p) ==
  /\ Len(c) >= 1
  /\ EffectiveN(p) >= NMin
  /\ EffectiveN(p) <= NMax
  /\ strip(c) # <<>>

\* the check without the strip()
weather_fetch_valid_no_strip(c) == c # <<>>

weather_fetch_valid(c) == c # <<>> /\ strip(c) # <<>>

Valid(k, c, p) ==
  CASE k = "health" -> TRUE
    [] k = "latest" -> weather_latest_valid(c)
    [] k = "stats" -> weather_stats_valid(c, p)
    [] k = "fetch" -> weather_fetch_valid(c)

(***************************************************************************)
(* api.py: the arguments the handlers pass on.                             *)
(***************************************************************************)
\* the query value passed on as received
weather_latest_city_raw(c) == c

weather_latest_city(c) == strip(c)

weather_stats_city(c) == strip(c)

weather_fetch_city(c) == strip(c)

(***************************************************************************)
(* api.py: exceptions.  "none", "sqlite" (sqlite3.Error), "other" (any     *)
(* other exception) and "http<code>" (HTTPException).                      *)
(***************************************************************************)
\* except Exception instead of except sqlite3.Error
get_conn_except_any(e) == IF e = "none" THEN e ELSE "http500"

get_conn_except(e) == IF e = "sqlite" THEN "http500" ELSE e

\* the connection closed on the normal path only
get_conn_closes_on_success(e) == e = "none"

get_conn_closes(e) == TRUE

\* the upstream failure left unhandled
weather_fetch_upstream_unhandled(e) == e

weather_fetch_upstream_exc(e) == "http502"

weather_fetch_insert_exc(e) == "http500"

import_db_exc(e) == "http500"

\* the status the framework answers with
HttpStatus(e) ==
  CASE e = "none" -> 200
    [] e = "http404" -> 404
    [] e = "http422" -> 422
    [] e = "http500" -> 500
    [] e = "http502" -> 502
    [] OTHER -> 500

(***************************************************************************)
(* api.py: not-found decisions and response bodies.                        *)
(***************************************************************************)
Field(name, v) == IF v = None THEN <<>> ELSE name :> v

weather_latest_not_found(latest) == latest = None

weather_latest_response(latest) ==
  (("city" :> latest.city) @@ ("ts" :> latest.ts))
    @@ Field("temperature", latest.temperature)
    @@ Field("humidity", latest.humidity)

\* not found decided on the average instead of the count
weather_stats_not_found_on_avg(stats) == stats.avg = None

weather_stats_not_found(stats) == stats.count = 0

weather_stats_response(stats) ==
  ("count" :> stats.count)
    @@ Field("avg", stats.avg)
    @@ Field("min", stats.min)
    @@ Field("max", stats.max)

\* skipped reported as constant
weather_fetch_response_skipped_false(inserted, rd) ==
  [inserted |-> inserted, skipped |-> FALSE, reading |-> rd]

weather_fetch_response(inserted, rd) ==
  [inserted |-> inserted, skipped |-> ~inserted, reading |-> rd]

health_response == [status |-> "ok"]

(***************************************************************************)
(* The requests.                                                           *)
(***************************************************************************)
Init ==
  /\ rows = {}
  /\ open = {}
  /\ pc = [r \in Slots |-> "idle"]
  /\ kind = [r \in Slots |-> "none"]
  /\ city = [r \in Slots |-> <<>>]
  /\ n = [r \in Slots |-> NoParam]
  /\ reading = [r \in Slots |-> NoValue]
  /\ result = [r \in Slots |-> NoValue]
  /\ exc = [r \in Slots |-> "none"]
  /\ status = [r \in Slots |-> 0]
  /\ body = [r \in Slots |-> NoValue]
  /\ calls = [r \in Slots |-> NoCalls]
  /\ faults = [r \in Slots |-> {}]
  /\ provider = NoValue
  /\ weather_data = NoValue

\* a request arrives
Arrive(r, k, c, p) ==
  /\ pc' = [pc EXCEPT ![r] = "validate"]
  /\ kind' = [kind EXCEPT ![r] = k]
  /\ city' = [city EXCEPT ![r] = c]
  /\ n' = [n EXCEPT ![r] = p]
  /\ reading' = [reading EXCEPT ![r] = NoValue]
  /\ result' = [result EXCEPT ![r] = NoValue]
  /\ exc' = [exc EXCEPT ![r] = "none"]
  /\ status' = [status EXCEPT ![r] = 0]
  /\ body' = [body EXCEPT ![r] = NoValue]
  /\ calls' = [calls EXCEPT ![r] = NoCalls]
  /\ faults' = [faults EXCEPT ![r] = {}]
  /\ UNCHANGED << rows, open, scriptvars >>

\* the response leaves; nothing of the request is kept
Respond(r, e, b) ==
  /\ pc' = [pc EXCEPT ![r] = "done"]
  /\ exc' = [exc EXCEPT ![r] = e]
  /\ status' = [status EXCEPT ![r] = HttpStatus(e)]
  /\ body' = [body EXCEPT ![r] = IF e = "none" THEN b ELSE NoValue]

StartHealth(r) ==
  /\ pc[r] = "idle"
  /\ Arrive(r, "health", <<>>, NoParam)

StartLatest(r, cities) ==
  /\ pc[r] = "idle"
  /\ \E c \in cities : Arrive(r, "latest", c, NoParam)

StartStats(r, cities) ==
  /\ pc[r] = "idle"
  /\ \E c \in cities, p \in NInputs : Arrive(r, "stats", c, p)

StartFetch(r, cities) ==
  /\ pc[r] = "idle"
  /\ \E c \in cities : Arrive(r, "fetch", c, NoParam)

\* the response has left: the worker is free for the next request
Finish(r) ==
  /\ pc[r] = "done"
  /\ pc' = [pc EXCEPT ![r] = "idle"]
  /\ kind' = [kind EXCEPT ![r] = "none"]
  /\ city' = [city EXCEPT ![r] = <<>>]
  /\ n' = [n EXCEPT ![r] = NoParam]
  /\ reading' = [reading EXCEPT ![r] = NoValue]
  /\ result' = [result EXCEPT ![r] = NoValue]
  /\ exc' = [exc EXCEPT ![r] = "none"]
  /\ status' = [status EXCEPT ![r] = 0]
  /\ body' = [body EXCEPT ![r] = NoValue]
  /\ calls' = [calls EXCEPT ![r] = NoCalls]
  /\ faults' = [faults EXCEPT ![r] = {}]
  /\ UNCHANGED << rows, open, scriptvars >>

\* health(), and the validation that opens the three other handlers
Validate(r) ==
  /\ pc[r] = "validate"
  /\ IF kind[r] = "health"
     THEN Respond(r, "none", health_response)
     ELSE IF ~Valid(kind[r], city[r], n[r])
          THEN Respond(r, "http422", NoValue)
          ELSE /\ pc' = [pc EXCEPT ![r] = IF kind[r] = "fetch" THEN "fetch" ELSE "connect"]
               /\ UNCHANGED << exc, status, body >>
  /\ UNCHANGED << rows, open, kind, city, n, reading, result, calls, faults, scriptvars >>

\* weather_fetch: the call of fetch_current
FetchOk(r, tss, samples) ==
  /\ pc[r] = "fetch"
  /\ \E t \in tss, s \in samples :
       /\ HasKey(rows, weather_fetch_city(city[r]), t) \/ Cardinality(rows) < MaxRows
       /\ reading' = [reading EXCEPT ![r] = fetch_current(weather_fetch_city(city[r]), t, s)]
  /\ calls' = [calls EXCEPT ![r].fetch = @ + 1]
  /\ pc' = [pc EXCEPT ![r] = "connect"]
  /\ UNCHANGED << rows, open, kind, city, n, result, exc, status, body, faults, scriptvars >>

FetchFails(r) ==
  /\ pc[r] = "fetch"
  /\ calls' = [calls EXCEPT ![r].fetch = @ + 1]
  /\ faults' = [faults EXCEPT ![r] = @ \cup {"upstream"}]
  /\ Respond(r, weather_fetch_upstream_exc("other"), NoValue)
  /\ UNCHANGED << rows, open, kind, city, n, reading, result, scriptvars >>

\* get_conn: sqlite3.connect and the pragmas, up to the yield
ConnectOk(r) ==
  /\ pc[r] = "connect"
  /\ open' = open \cup {r}
  /\ calls' = [calls EXCEPT ![r].connect = @ + 1]
  /\ pc' = [pc EXCEPT ![r] = "body"]
  /\ UNCHANGED << rows, kind, city, n, reading, result, exc, status, body, faults, scriptvars >>

\* get_conn: a pragma raises; the error is ignored and the connection yielded
ConnectPragmaFails(r) ==
  /\ pc[r] = "connect"
  /\ open' = open \cup {r}
  /\ calls' = [calls EXCEPT ![r].connect = @ + 1]
  /\ faults' = [faults EXCEPT ![r] = @ \cup {"pragma"}]
  /\ pc' = [pc EXCEPT ![r] = "body"]
  /\ UNCHANGED << rows, kind, city, n, reading, result, exc, status, body, scriptvars >>

\* get_conn: sqlite3.connect raises; there is no connection to close
ConnectFails(r) ==
  /\ pc[r] = "connect"
  /\ faults' = [faults EXCEPT ![r] = @ \cup {"connect"}]
  /\ Respond(r, get_conn_except("sqlite"), NoValue)
  /\ UNCHANGED << rows, open, kind, city, n, reading, result, calls, scriptvars >>

\* inside the connection scope: `import db` raises
ImportFails(r) ==
  /\ pc[r] = "body"
  /\ faults' = [faults EXCEPT ![r] = @ \cup {"import"}]
  /\ exc' = [exc EXCEPT ![r] = import_db_exc("other")]
  /\ pc' = [pc EXCEPT ![r] = "exit"]
  /\ UNCHANGED << rows, open, kind, city, n, reading, result, status, body, calls, scriptvars >>

\* inside the connection scope: the storage operation raises
DbFails(r) ==
  /\ pc[r] = "body"
  /\ faults' = [faults EXCEPT ![r] = @ \cup {"db"}]
  /\ calls' = [calls EXCEPT ![r].db = @ + 1]
  /\ \E e \in {"sqlite", "other"} :
       exc' = [exc EXCEPT ![r] = IF kind[r] = "fetch" THEN weather_fetch_insert_exc(e) ELSE e]
  /\ pc' = [pc EXCEPT ![r] = "exit"]
  /\ UNCHANGED << rows, open, kind, city, n, reading, result, status, body, scriptvars >>

\* weather_latest inside the connection scope
LatestQuery(r) ==
  /\ pc[r] = "body"
  /\ kind[r] = "latest"
  /\ LET latest == latest_for_city(rows, weather_latest_city(city[r]))
     IN /\ result' = [result EXCEPT ![r] = latest]
        /\ exc' = [exc EXCEPT ![r] = IF weather_latest_not_found(latest) THEN "http404" ELSE "none"]
  /\ calls' = [calls EXCEPT ![r].db = @ + 1]
  /\ pc' = [pc EXCEPT ![r] = "exit"]
  /\ UNCHANGED << rows, open, kind, city, n, reading, status, body, faults, scriptvars >>

\* weather_stats inside the connection scope
StatsQuery(r) ==
  /\ pc[r] = "body"
  /\ kind[r] = "stats"
  /\ LET stats == stats_last_n(rows, weather_stats_city(city[r]), EffectiveN(n[r]))
     IN /\ result' = [result EXCEPT ![r] = stats]
        /\ exc' = [exc EXCEPT ![r] = IF weather_stats_not_found(stats) THEN "http404" ELSE "none"]
  /\ calls' = [calls EXCEPT ![r].db = @ + 1]
  /\ pc' = [pc EXCEPT ![r] = "exit"]
  /\ UNCHANGED << rows, open, kind, city, n, reading, status, body, faults, scriptvars >>

\* weather_fetch inside the connection scope
Insert(r) ==
  /\ pc[r] = "body"
  /\ kind[r] = "fetch"
  /\ LET res == insert_reading(rows, reading[r])
     IN /\ rows' = res.rows
        /\ result' = [result EXCEPT ![r] = res.inserted]
        /\ calls' = [calls EXCEPT ![r].db = @ + 1,
                                  ![r].wrote = @ + (IF res.rows # rows THEN 1 ELSE 0)]
  /\ pc' = [pc EXCEPT ![r] = "exit"]
  /\ UNCHANGED << open, kind, city, n, reading, exc, status, body, faults, scriptvars >>

Response(r) ==
  IF exc[r] # "none" THEN NoValue
  ELSE CASE kind[r] = "latest" -> weather_latest_response(result[r])
         [] kind[r] = "stats" -> weather_stats_response(result[r])
         [] kind[r] = "fetch" -> weather_fetch_response(result[r], reading[r])

\* get_conn after the yield (except, finally), then the handler's return
Exit(r) ==
  /\ pc[r] = "exit"
  /\ IF get_conn_closes(exc[r])
     THEN /\ open' = open \ {r}
          /\ calls' = [calls EXCEPT ![r].close = @ + 1]
     ELSE UNCHANGED << open, calls >>
  /\ Respond(r, get_conn_except(exc[r]), Response(r))
  /\ UNCHANGED << rows, kind, city, n, reading, result, faults, scriptvars >>

(***************************************************************************)
(* Spec: requests served one after the other.                              *)
(***************************************************************************)
Next ==
  \E r \in SeqSlots :
    \/ StartHealth(r)
    \/ StartLatest(r, CityInputs)
    \/ StartStats(r, CityInputs)
    \/ StartFetch(r, CityInputs)
    \/ Validate(r)
    \/ FetchOk(r, Timestamps, Samples)
    \/ FetchFails(r)
    \/ ConnectOk(r)
    \/ ConnectPragmaFails(r)
    \/ ConnectFails(r)
    \/ ImportFails(r)
    \/ DbFails(r)
    \/ LatestQuery(r)
    \/ StatsQuery(r)
    \/ Insert(r)
    \/ Exit(r)
    \/ Finish(r)

Spec == Init /\ [][Next]_vars

(***************************************************************************)
(* SpecConc: requests served concurrently, one per slot, their steps       *)
(* interleaved; each storage operation is one atomic step.                 *)
(***************************************************************************)
ConcCities == { CityA, <<" ", "a", " ">> }
ConcTimestamps == {1}
ConcSamples == { s \in Samples : s.temperature # None }

NextConc ==
  \E r \in Slots :
    \/ StartLatest(r, {CityA})
    \/ StartFetch(r, ConcCities)
    \/ Validate(r)
    \/ FetchOk(r, ConcTimestamps, ConcSamples)
    \/ FetchFails(r)
    \/ ConnectOk(r)
    \/ ConnectPragmaFails(r)
    \/ ConnectFails(r)
    \/ ImportFails(r)
    \/ DbFails(r)
    \/ LatestQuery(r)
    \/ Insert(r)
    \/ Exit(r)

SpecConc == Init /\ [][NextConc]_vars

(***************************************************************************)
(* weather.py: fetch_weather.  The provider's answer is a record: the      *)
(* outcome of requests.get, the status code, whether the body parses, and  *)
(* of the parsed body current_weather.time, current_weather.temperature    *)
(* and hourly.relativehumidity_2m.  A key that is not in the body is       *)
(* Missing.                                                                *)
(***************************************************************************)
Missing == [tag |-> "missing"]
BadTime == [tag |-> "str", s |-> "not a date"]
IsoTime(t) == [tag |-> "iso", t |-> t]

StatusOk == 200
FailureStatuses == {404, 500}

RECURSIVE SeqsUpTo(_, _)
SeqsUpTo(S, k) ==
  IF k = 0 THEN { <<>> }
  ELSE LET shorter == SeqsUpTo(S, k - 1)
       IN shorter \cup { Append(q, x) : q \in shorter, x \in S }

ProviderAnswers ==
  [ transport : {"ok", "error"},
    status : {StatusOk} \cup FailureStatuses,
    json : {"ok", "bad"},
    time : {Missing, BadTime, IsoTime(1)},
    temperature : {Missing, None, Num(10)},
    series : SeqsUpTo({Num(70), Num(80)}, MaxSeries) ]

\* datetime.fromisoformat(...).strftime("%Y-%m-%d %H:%M:%S"), or the clock
formatted_timestamp(time) ==
  IF time = Missing
  THEN [tag |-> "ymd_hms", src |-> "clock"]
  ELSE [tag |-> "ymd_hms", src |-> "provider", t |-> time.t]

fetch_weather(a) ==
  IF a.transport # "ok" THEN None
  ELSE IF a.status # StatusOk THEN None
  ELSE IF a.json # "ok" THEN None
  ELSE IF a.time = BadTime THEN None
  ELSE [timestamp |-> formatted_timestamp(a.time),
        temperature |-> IF a.temperature = Missing THEN Str("N/A") ELSE a.temperature,
        humidity |-> IF a.series # <<>> THEN a.series[1] ELSE Str("N/A")]

InitScript ==
  /\ rows = {}
  /\ open = {}
  /\ pc = [r \in Slots |-> "idle"]
  /\ kind = [r \in Slots |-> "none"]
  /\ city = [r \in Slots |-> <<>>]
  /\ n = [r \in Slots |-> NoParam]
  /\ reading = [r \in Slots |-> NoValue]
  /\ result = [r \in Slots |-> NoValue]
  /\ exc = [r \in Slots |-> "none"]
  /\ status = [r \in Slots |-> 0]
  /\ body = [r \in Slots |-> NoValue]
  /\ calls = [r \in Slots |-> NoCalls]
  /\ faults = [r \in Slots |-> {}]
  /\ provider \in ProviderAnswers
  /\ weather_data = NoValue

\* main(): the call of fetch_weather
RunFetchWeather ==
  /\ weather_data = NoValue
  /\ weather_data' = fetch_weather(provider)
  /\ UNCHANGED << rows, open, reqvars, provider >>

\* the script is run again, against another answer of the provider
RunAgain ==
  /\ weather_data # NoValue
  /\ provider' \in ProviderAnswers
  /\ weather_data' = NoValue
  /\ UNCHANGED << rows, open, reqvars >>

NextScript == RunFetchWeather \/ RunAgain

SpecScript == InitScript /\ [][NextScript]_vars

(***************************************************************************)
(* The properties.  They are stated on the requests' parameters as         *)
(* received, on the responses, and on the table.                           *)
(***************************************************************************)
Done(r) == pc[r] = "done"

\* empty or made of whitespace only
Blank(c) == \A i \in 1..Len(c) : c[i] = " "

\* the string without its leading and trailing whitespace
Trimmed(c) ==
  IF Blank(c) THEN <<>>
  ELSE LET first == CHOOSE i \in 1..Len(c) : c[i] # " " /\ \A j \in 1..(i - 1) : c[j] = " "
           last == CHOOSE i \in 1..Len(c) : c[i] # " " /\ \A j \in (i + 1)..Len(c) : c[j] = " "
       IN [i \in 1..(last - first + 1) |-> c[first + i - 1]]

RequestedN(p) == IF p = <<>> THEN 24 ELSE p[1]

InvalidInput(r) ==
  \/ kind[r] \in {"latest", "stats", "fetch"} /\ Blank(city[r])
  \/ kind[r] = "stats" /\ (RequestedN(n[r]) < 1 \/ RequestedN(n[r]) > 1000)

ValidInput(r) == kind[r] \in {"latest", "stats", "fetch"} /\ ~InvalidInput(r)

StorageFailed(r) == faults[r] \cap {"connect", "import", "db"} # {}

KeyRows(c, t) == { x \in rows : x.city = c /\ x.ts = t }

UniqueKeys == \A x \in rows, y \in rows : x.city = y.city /\ x.ts = y.ts => x = y

\* the insert of an ingest: insert-if-new on (trimmed city, ts)
C1_InsertStep ==
  \A r \in Slots :
    (kind[r] = "fetch" /\ pc[r] = "body" /\ pc'[r] = "exit" /\ exc'[r] = "none") =>
      IF KeyRows(Trimmed(city[r]), reading[r].ts) # {}
      THEN result'[r] = FALSE /\ rows' = rows
      ELSE /\ result'[r] = TRUE
           /\ rows' = rows \cup {reading[r]}
           /\ Cardinality(rows') = Cardinality(rows) + 1

\* the answers of the valid ingests
C1_Responses ==
  \A r \in Slots :
    (kind[r] = "fetch" /\ Done(r) /\ ValidInput(r)) =>
      /\ reading[r] # NoValue => reading[r].city = Trimmed(city[r])
      /\ (faults[r] \subseteq {"pragma"}) => status[r] = 200
      /\ status[r] = 200 =>
           /\ body[r].inserted = result[r]
           /\ body[r].skipped = ~body[r].inserted
           /\ body[r].reading = reading[r]
           /\ KeyRows(reading[r].city, reading[r].ts) # {}

\* C1: the table holds at most one row per (city, ts); an insert of a new
\* (city, ts) reports inserted and adds exactly that one row, an insert of a
\* stored (city, ts) reports not inserted and leaves the table as it is; the
\* ingest then answers 200 with that flag, skipped being its negation, and an
\* ingest that met no failure never answers with an error.
C1_InsertIfNew == [](UniqueKeys /\ C1_Responses) /\ [][C1_InsertStep]_vars

C1_Witness ==
  \E r \in Slots :
    /\ kind[r] = "fetch" /\ Done(r) /\ status[r] = 200
    /\ body[r].inserted = FALSE /\ body[r].skipped = TRUE
    /\ body[r].reading \notin rows

\* C2: a request with invalid input answers 422 without having opened a
\* connection, called the upstream or called storage; nothing of the kind
\* has happened before the validation of any request.
C2_ValidationFirst ==
  \A r \in Slots :
    /\ pc[r] = "validate" => calls[r] = NoCalls /\ r \notin open
    /\ (InvalidInput(r) /\ pc[r] # "validate") =>
         /\ Done(r) /\ status[r] = 422
         /\ calls[r] = NoCalls /\ r \notin open

C2_Witness ==
  \E r \in Slots :
    /\ kind[r] = "fetch" /\ Done(r) /\ status[r] = 422
    /\ city[r] # <<>> /\ Blank(city[r])
    /\ rows # {}

\* C3: a valid ingest whose upstream fetch fails answers 502 with no connection
\* opened and no insert attempted; one whose fetch succeeds and whose connection
\* or insert fails answers 500; in both cases the table was not changed by the
\* request, and no request calls the upstream or the insert more than once.
C3_IngestFailures ==
  \A r \in Slots :
    kind[r] = "fetch" =>
      /\ calls[r].fetch <= 1 /\ calls[r].db <= 1
      /\ (Done(r) /\ ValidInput(r)) =>
           /\ "upstream" \in faults[r] =>
                /\ status[r] = 502 /\ calls[r].connect = 0 /\ calls[r].db = 0
                /\ calls[r].wrote = 0 /\ calls[r].fetch = 1
           /\ StorageFailed(r) =>
                /\ status[r] = 500 /\ calls[r].wrote = 0 /\ calls[r].fetch = 1
                /\ "connect" \in faults[r] => calls[r].db = 0

C3_Witness ==
  \E r \in Slots :
    /\ kind[r] = "fetch" /\ Done(r) /\ status[r] = 500
    /\ "db" \in faults[r] /\ reading[r] # NoValue
    /\ reading[r] \notin rows

\* C4: a valid read answers 404 exactly when its storage calls succeeded and
\* the table holds no row of the city (for stats the answer is then 200 with a
\* positive count, whatever the temperatures); when a storage call failed it
\* answers 500.
C4_NotFoundOrFailure ==
  \A r \in Slots :
    (kind[r] \in {"latest", "stats"} /\ Done(r) /\ ValidInput(r)) =>
      LET found == RowsFor(rows, Trimmed(city[r])) # {}
      IN /\ status[r] = 404 <=> (~StorageFailed(r) /\ ~found)
         /\ StorageFailed(r) => status[r] = 500
         /\ (~StorageFailed(r) /\ found) => status[r] = 200
         /\ (kind[r] = "stats" /\ status[r] = 200) => body[r].count > 0

C4_Witness ==
  \E r \in Slots :
    /\ kind[r] = "stats" /\ Done(r) /\ status[r] = 200
    /\ "avg" \notin DOMAIN body[r]
    /\ faults[r] = {}

\* the optional field of a response: left out when the stored value is null
SameOptional(b, name, v) ==
  IF v = None THEN name \notin DOMAIN b
  ELSE name \in DOMAIN b /\ b[name] = v

\* C5: a valid GET latest whose storage calls succeed, for a city that has
\* rows, answers 200 with the row of that city (the trimmed query value) whose
\* timestamp is the greatest.
C5_LatestIsGreatest ==
  \A r \in Slots :
    (kind[r] = "latest" /\ Done(r) /\ ValidInput(r) /\ ~StorageFailed(r)
       /\ RowsFor(rows, Trimmed(city[r])) # {}) =>
      /\ status[r] = 200
      /\ \E x \in rows :
           /\ x.city = Trimmed(city[r])
           /\ \A y \in rows : y.city = x.city => y.ts <= x.ts
           /\ body[r].city = x.city
           /\ body[r].ts = x.ts
           /\ SameOptional(body[r], "temperature", x.temperature)
           /\ SameOptional(body[r], "humidity", x.humidity)

C5_Witness ==
  \E r \in Slots :
    /\ kind[r] = "latest" /\ Done(r) /\ status[r] = 200
    /\ city[r] # Trimmed(city[r])
    /\ \E y \in rows : y.city = body[r].city /\ y.ts < body[r].ts
    /\ \E z \in rows : z.city # body[r].city /\ z.ts >= body[r].ts

RECURSIVE SumTemps(_)
SumTemps(S) ==
  IF S = {} THEN 0
  ELSE LET x == CHOOSE y \in S : TRUE
       IN x.temperature.v + SumTemps(S \ {x})

\* the aggregate of the set T of rows, as a response body b
AggregateOf(b, T) ==
  LET defined == { x \in T : x.temperature # None }
  IN /\ b.count = Cardinality(T)
     /\ IF defined = {}
        THEN DOMAIN b = {"count"}
        ELSE /\ DOMAIN b = {"count", "avg", "min", "max"}
             /\ \E x \in defined : b.min = x.temperature
                  /\ \A y \in defined : x.temperature.v <= y.temperature.v
             /\ \E x \in defined : b.max = x.temperature
                  /\ \A y \in defined : x.temperature.v >= y.temperature.v
             /\ b.avg.v.num * Cardinality(defined) = SumTemps(defined) * b.avg.v.den
             /\ b.avg.v.den > 0

\* C6: a valid GET stats whose storage calls succeed answers, for a city with
\* rows, the aggregate of the min(n, rows of the city) rows of the city with
\* the greatest timestamps: count is the number of these rows, avg, min and max
\* are over their non-null temperatures and absent when there are none.
C6_AggregateLastN ==
  \A r \in Slots :
    (kind[r] = "stats" /\ Done(r) /\ ValidInput(r) /\ ~StorageFailed(r)) =>
      LET S == { x \in rows : x.city = Trimmed(city[r]) }
          k == IF RequestedN(n[r]) <= Cardinality(S) THEN RequestedN(n[r]) ELSE Cardinality(S)
      IN IF S = {} THEN status[r] = 404
         ELSE /\ status[r] = 200
              /\ \E T \in SUBSET S :
                   /\ Cardinality(T) = k
                   /\ \A x \in T, y \in S \ T : x.ts > y.ts
                   /\ AggregateOf(body[r], T)

C6_Witness ==
  \E r \in Slots :
    /\ kind[r] = "stats" /\ Done(r) /\ status[r] = 200
    /\ body[r].count < Cardinality(RowsFor(rows, Trimmed(city[r])))
    /\ "avg" \in DOMAIN body[r]
    /\ \E x \in rows : x.city = Trimmed(city[r]) /\ x.temperature # None
                        /\ x.temperature # body[r].max

\* a step keeps every stored row and adds at most one, in an ingest's insert
C7_Step ==
  /\ rows \subseteq rows'
  /\ Cardinality(rows') <= Cardinality(rows) + 1
  /\ rows' # rows =>
       \E r \in Slots : kind[r] = "fetch" /\ pc[r] = "body" /\ exc'[r] = "none"
                         /\ calls'[r].wrote = 1

\* only an ingest that answers 200 has changed the table
C7_Requests ==
  \A r \in Slots :
    /\ kind[r] # "fetch" => calls[r].wrote = 0
    /\ (Done(r) /\ status[r] # 200) => calls[r].wrote = 0
    /\ calls[r].wrote <= 1

\* C7: the table only grows, by at most one row per step, and only by the
\* insert of an ingest that goes on to answer 200; a request that answers 422,
\* 502 or 500, and every health, latest or stats request, has changed nothing.
C7_OnlyGrows == []C7_Requests /\ [][C7_Step]_vars

C7_Witness ==
  \E r \in Slots :
    /\ kind[r] = "fetch" /\ Done(r) /\ status[r] = 200
    /\ calls[r].wrote = 1
    /\ Cardinality(rows) >= 2

\* C8: what fetch_weather returns on success carries the provider's
\* temperature and first humidity sample when the provider supplied them and
\* None otherwise, never a string.
C8_AbsentNotSentinel ==
  (weather_data # NoValue /\ weather_data # None) =>
    /\ weather_data.temperature =
         (IF provider.temperature = Missing THEN None ELSE provider.temperature)
    /\ weather_data.humidity =
         (IF provider.series = <<>> THEN None ELSE provider.series[1])
    /\ weather_data.temperature.tag # "str"
    /\ weather_data.humidity.tag # "str"

\* C9: a request holds a connection exactly while it is inside the connection
\* scope, opens at most one, and has closed it when it answers, whatever the
\* answer; when no request is in progress no connection is open.
C9_ConnectionScope ==
  /\ \A r \in Slots :
       /\ calls[r].connect <= 1
       /\ pc[r] \in {"body", "exit"} =>
            r \in open /\ calls[r].connect = 1 /\ calls[r].close = 0
       /\ pc[r] \notin {"body", "exit"} => r \notin open
       /\ Done(r) => calls[r].close = calls[r].connect
       /\ calls[r].db > 0 => calls[r].connect = 1
  /\ (\A r \in Slots : pc[r] \in {"idle", "done"}) => open = {}

C9_Witness ==
  \E r \in Slots :
    /\ Done(r) /\ status[r] = 404
    /\ "pragma" \in faults[r]
    /\ calls[r].connect = 1 /\ calls[r].close = 1

\* C10: among concurrent ingests of the same (city, ts), as soon as one has
\* inserted or skipped, exactly one has inserted and one row of the pair is
\* stored; each answers 200 with its flag and skipped as the negation, none
\* that met no failure answers with an error, and the table never holds two
\* rows of one pair.
C10_ExactlyOneInserts ==
  /\ UniqueKeys
  /\ \A r \in Slots :
       (kind[r] = "fetch" /\ pc[r] \in {"exit", "done"} /\ exc[r] = "none") =>
         LET same == { q \in Slots : /\ kind[q] = "fetch"
                                     /\ pc[q] \in {"exit", "done"}
                                     /\ exc[q] = "none"
                                     /\ reading[q].city = reading[r].city
                                     /\ reading[q].ts = reading[r].ts }
         IN /\ Cardinality({ q \in same : result[q] = TRUE }) = 1
            /\ Cardinality(KeyRows(reading[r].city, reading[r].ts)) = 1
            /\ Done(r) =>
                 /\ status[r] = 200
                 /\ body[r].inserted = result[r]
                 /\ body[r].skipped = ~result[r]
  /\ \A r \in Slots :
       (kind[r] = "fetch" /\ Done(r) /\ ValidInput(r) /\ faults[r] = {}) => status[r] = 200

C10_Witness ==
  \E r \in Slots, q \in Slots :
    /\ r # q
    /\ kind[r] = "fetch" /\ Done(r) /\ status[r] = 200
    /\ kind[q] = "fetch" /\ Done(q) /\ status[q] = 200
    /\ body[r].inserted /\ body[q].skipped
    /\ body[q].reading # body[r].reading
    /\ city[q] # city[r]
    /\ rows = {body[r].reading}

====
